---- MODULE Spec2Model ----
(***************************************************************************)
(* A model of hw01/src/main.rs: a fixed pool of worker threads fed by an   *)
(* mpsc channel, a blocking HTTP connection handler that keeps per-path    *)
(* access counts in a mutex-guarded map, and the accept loop of main with  *)
(* its signal-driven shutdown.                                             *)
(*                                                                         *)
(* Threads are the main thread and one thread per worker.  Every action    *)
(* is one step of one thread (or of the environment: a signal, a client).  *)
(* An ASCII byte is modelled by its character, with CR and LF standing for *)
(* '\r' and '\n'; a byte of 0x80 and above by its two hexadecimal digits.  *)
(* A String is modelled by the bytes it holds, which are valid UTF-8.      *)
(***************************************************************************)
EXTENDS Integers, Sequences, FiniteSets, TLC

\* ------------------------------------------------------------------ bounds

\* Number of worker threads (num_cpus() is at least 2).
NumWorkers == 2

\* Number of connections the listener hands out during one run.
MaxConns == 2

\* Capacity of the handler's read buffer (8192 in the source), scaled down.
BufLen == 9

\* Number of read, write or flush calls that fail during one run.
MaxIoErrors == 1

Workers == 1..NumWorkers
Conns == 1..MaxConns

\* The connection identities of the state: those of Conns, and two more for
\* the specification of the busy pool, which has three jobs in the pool at
\* once and a fourth sent after shutdown().
ConnIds == 1..(MaxConns + 2)

\* ------------------------------------------------------------------- bytes

CR == "CR"
LF == "LF"
SP == " "
\* The byte 0xFF, which is not valid anywhere in UTF-8.
XX == "FF"

\* The value of the bytes of 0x80 and above that requests carry.
HighBytes ==
    [b \in {"82", "99", "9F", "BD", "BF", "E2", "EF", "F0", "FF"} |->
        CASE b = "82" -> 130 [] b = "99" -> 153 [] b = "9F" -> 159
          [] b = "BD" -> 189 [] b = "BF" -> 191 [] b = "E2" -> 226
          [] b = "EF" -> 239 [] b = "F0" -> 240 [] b = "FF" -> 255]

\* The value of a byte as far as UTF-8 decoding looks at it: every ASCII
\* byte is below 0x80 and decodes to itself, so all of them stand for 0.
ByteVal(b) == IF b \in DOMAIN HighBytes THEN HighBytes[b] ELSE 0

\* The four UTF-8 bytes of the hit marker U+1F642.
EmojiBytes == <<"F0", "9F", "99", "82">>
\* The three UTF-8 bytes of U+FFFD, the replacement character.
ReplacementBytes == <<"EF", "BF", "BD">>

Min(a, b) == IF a < b THEN a ELSE b

\* ---------------------------------------------------------- pure functions

\* find_crlf: the 0-based index of the first CR immediately followed by LF,
\* or -1 for None.
find_crlf_short(buf) ==
    LET hits == {i \in 1..(Len(buf) - 2) : buf[i] = CR /\ buf[i + 1] = LF}
    IN IF hits = {} THEN -1
       ELSE (CHOOSE i \in hits : \A j \in hits : i <= j) - 1
find_crlf(buf) ==
    LET hits == {i \in 1..(Len(buf) - 1) : buf[i] = CR /\ buf[i + 1] = LF}
    IN IF hits = {} THEN -1
       ELSE (CHOOSE i \in hits : \A j \in hits : i <= j) - 1

\* line.split(|&b| b == b' '): the maximal runs between spaces, empty runs
\* included; an empty line yields one empty token.
RECURSIVE SplitFrom(_, _, _)
SplitFrom(line, i, cur) ==
    IF i > Len(line) THEN <<cur>>
    ELSE IF line[i] = SP THEN <<cur>> \o SplitFrom(line, i + 1, <<>>)
    ELSE SplitFrom(line, i + 1, Append(cur, line[i]))

split(line) == SplitFrom(line, 1, <<>>)

\* core::str::lossy, safe_get: the value of the byte at i, 0 past the end.
safe_get(bytes, i) == IF i <= Len(bytes) THEN ByteVal(bytes[i]) ELSE 0

\* utf8_char_width: the length of the sequence a byte leads, 0 for a byte
\* that leads none (a continuation byte, C0, C1, F5 and above).
utf8_char_width(v) ==
    IF v < 128 THEN 1
    ELSE IF v >= 194 /\ v <= 223 THEN 2
    ELSE IF v >= 224 /\ v <= 239 THEN 3
    ELSE IF v >= 240 /\ v <= 244 THEN 4
    ELSE 0

\* A continuation byte: 10xxxxxx.
IsCont(v) == v >= 128 /\ v <= 191

\* The second byte a lead byte admits (no overlong form, no surrogate,
\* nothing above U+10FFFF).
SecondOk(lead, v) ==
    CASE lead = 224 -> v >= 160 /\ v <= 191
      [] lead = 237 -> v >= 128 /\ v <= 159
      [] lead = 240 -> v >= 144 /\ v <= 191
      [] lead = 244 -> v >= 128 /\ v <= 143
      [] OTHER -> IsCont(v)

\* Utf8Chunks::next for the bytes from i on: whether a character starts at
\* i, and how many bytes the character, or else the maximal invalid part
\* (the lead byte and the bytes that could still continue it), takes.
Utf8Chunk(bytes, i) ==
    LET lead == safe_get(bytes, i)
        w == utf8_char_width(lead)
    IN IF w = 1 THEN [valid |-> TRUE, len |-> 1]
       ELSE IF w = 0 THEN [valid |-> FALSE, len |-> 1]
       ELSE IF ~SecondOk(lead, safe_get(bytes, i + 1))
            THEN [valid |-> FALSE, len |-> 1]
       ELSE IF w = 2 THEN [valid |-> TRUE, len |-> 2]
       ELSE IF ~IsCont(safe_get(bytes, i + 2))
            THEN [valid |-> FALSE, len |-> 2]
       ELSE IF w = 3 THEN [valid |-> TRUE, len |-> 3]
       ELSE IF ~IsCont(safe_get(bytes, i + 3))
            THEN [valid |-> FALSE, len |-> 3]
       ELSE [valid |-> TRUE, len |-> 4]

RECURSIVE LossyFrom(_, _)
LossyFrom(bytes, i) ==
    IF i > Len(bytes) THEN <<>>
    ELSE LET ch == Utf8Chunk(bytes, i)
         IN (IF ch.valid THEN SubSeq(bytes, i, i + ch.len - 1)
             ELSE ReplacementBytes) \o LossyFrom(bytes, i + ch.len)

\* String::from_utf8_lossy(..).into_owned(): the characters are kept, and
\* every maximal invalid part becomes one U+FFFD.
from_utf8_lossy(bytes) == LossyFrom(bytes, 1)

MethodGET == <<"G", "E", "T">>
RootPath == <<"/">>

parse_path_any_method(line) ==
    LET parts == split(line)
    IN IF Len(parts) >= 2 THEN from_utf8_lossy(parts[2]) ELSE RootPath

\* parse_path_from_request_line, followed by the caller's unwrap_or_else
\* (the function never returns None: split always yields a first token).
parse_path_from_request_line(line) ==
    LET parts == split(line)
    IN IF parts[1] # MethodGET THEN RootPath
       ELSE IF Len(parts) >= 2 THEN from_utf8_lossy(parts[2])
       ELSE RootPath

\* str::as_bytes: the bytes the string holds (a view, not a conversion).
as_bytes(s) == s

\* format!("{path} {emoji}"): the body of a hit response.
HitBodyPlain(p) == p
HitBody(p) == p \o <<SP>> \o EmojiBytes

\* The body of a miss response: the path itself.
MissBody(p) == p

\* The Content-Length a response header announces for a body.
ContentLength(body) == Len(as_bytes(body))

\* ----------------------------------------------------------------- clients

\* What a client does on its connection: the bytes it sends, the offsets at
\* which the byte stream is cut into the pieces that single reads return, and
\* whether it then closes its side ("close") or keeps the connection open
\* and silent ("stall").
ReqGetA == <<"G", "E", "T", SP, "/", "a", CR, LF>>
ReqPutA == <<"P", "U", "T", SP, "/", "a", CR, LF>>
ReqJunk == [i \in 1..(BufLen + 1) |-> "x"]
ReqPartial == <<"G", "E", "T">>

Clients ==
    { [data |-> ReqGetA,    cuts |-> {},  ending |-> "close"],
      [data |-> ReqPutA,    cuts |-> {7}, ending |-> "close"],
      [data |-> ReqJunk,    cuts |-> {},  ending |-> "close"],
      [data |-> <<>>,       cuts |-> {},  ending |-> "close"],
      [data |-> ReqPartial, cuts |-> {},  ending |-> "stall"] }

NoClient == [data |-> <<>>, cuts |-> {}, ending |-> "none"]
NoOut == [status |-> 0, clen |-> 0, body |-> <<>>, calls |-> 0]

\* Message::Job(closure over the accepted stream) and Message::Terminate.
Job(c) == [type |-> "Job", conn |-> c]
Terminate == [type |-> "Terminate", conn |-> 0]

\* ------------------------------------------------------------------- state

VARIABLES
    shutdown,   \* the AtomicBool the signal handlers set
    main_pc,    \* where the main thread is
    sd_i,       \* iterations done of the send loop of ThreadPool::shutdown
    dr_i,       \* iterations done of the send loop of Drop for ThreadPool
    joining,    \* the handle main has popped and is joining, or 0
    workers,    \* ThreadPool.workers: the join handles not yet popped
    queue,      \* the messages in the mpsc channel, oldest first
    rxLock,     \* the worker holding the receiver's mutex, or 0
    wpc,        \* where each worker thread is
    wjob,       \* the connection whose job a worker is running, or 0
    hpc,        \* where the handling of each connection is
    req,        \* the client of each connection
    n,          \* handle_conn's n: bytes read so far
    path,       \* handle_conn's path
    kind,       \* "hit", "miss" or "bad" once decided, else "none"
    out,        \* what has been written to the stream, and how many of
                \* the write_all and flush calls have returned Ok
    hres,       \* how handle_conn ended: "ok", "silent", "ioerr", or "none"
    cache,      \* the HashMap<String, usize>
    cacheLock,  \* holder of the cache mutex: a connection, -1 for main, 0
    items,      \* print_cache_stats' items, once cloned
    printed,    \* the statistics lines printed so far
    runs,       \* history: how many times each connection's job was started
    inflight,   \* history: connections in flight when main left the loop
    ioErrs,     \* history: how many I/O calls have failed
    rounds,     \* history: simulated-delay rounds elapsed (timed spec)
    arrival,    \* history: the round in which each connection was accepted
    sentBusy    \* history: the connections whose job was sent while a job
                \* was running and the channel was not empty

vars == <<shutdown, main_pc, sd_i, dr_i, joining, workers, queue, rxLock, wpc,
          wjob, hpc,
          req, n, path, kind, out, hres, cache, cacheLock, items, printed,
          runs, inflight, ioErrs, rounds, arrival, sentBusy>>

poolVars == <<sd_i, dr_i, joining, workers, queue, rxLock, wpc, wjob>>
connVars == <<hpc, req, n, path, kind, out, hres>>
cacheVars == <<cache, cacheLock>>
statVars == <<items, printed>>
histVars == <<runs, inflight, ioErrs, rounds, arrival, sentBusy>>

EmptyMap == [p \in {} |-> 0]

Init ==
    /\ shutdown = FALSE
    /\ main_pc = "check"
    /\ sd_i = 0
    /\ dr_i = 0
    /\ joining = 0
    /\ workers = [i \in 1..NumWorkers |-> i]
    /\ queue = <<>>
    /\ rxLock = 0
    /\ wpc = [w \in Workers |-> "lock"]
    /\ wjob = [w \in Workers |-> 0]
    /\ hpc = [c \in ConnIds |-> "new"]
    /\ req = [c \in ConnIds |-> NoClient]
    /\ n = [c \in ConnIds |-> 0]
    /\ path = [c \in ConnIds |-> <<>>]
    /\ kind = [c \in ConnIds |-> "none"]
    /\ out = [c \in ConnIds |-> NoOut]
    /\ hres = [c \in ConnIds |-> "none"]
    /\ cache = EmptyMap
    /\ cacheLock = 0
    /\ items = <<>>
    /\ printed = <<>>
    /\ runs = [c \in ConnIds |-> 0]
    /\ inflight = {}
    /\ ioErrs = 0
    /\ rounds = 0
    /\ arrival = [c \in ConnIds |-> 0]
    /\ sentBusy = {}

\* -------------------------------------------------------------- ThreadPool

\* The value of rxLock for a receiver mutex that is free and poisoned: its
\* guard was dropped by a thread that was panicking.
Poisoned == -1

\* A worker thread has ended: by the break of its loop, or by a panic.
Ended(w) == wpc[w] \in {"stopped", "panicked"}

\* The receiver lives in an Arc shared by the worker closures: it is dropped
\* when the last worker thread has ended.
ReceiverAlive == \E w \in Workers : ~Ended(w)

\* The thread of worker w is the last to end.  Its closure is dropped with
\* it, and with the last closure the receiver; a channel whose receiver is
\* dropped drops every message still in it, a job with the stream it owns.
LastWorker(w) == \A v \in Workers \ {w} : Ended(v)

\* The connections whose jobs are in the channel.
QueuedConns(q) == {q[i].conn : i \in {j \in 1..Len(q) : q[j].type = "Job"}}

\* The channel, and the connections' places and outcomes given as h and r,
\* once the thread of worker w has ended leaving q in the channel.
QueueAfterEnd(w, q) == IF LastWorker(w) THEN <<>> ELSE q
HpcAfterEnd(w, q, h) ==
    [c \in ConnIds |-> IF LastWorker(w) /\ c \in QueuedConns(q) THEN "closed" ELSE h[c]]
HresAfterEnd(w, q, r) ==
    [c \in ConnIds |-> IF LastWorker(w) /\ c \in QueuedConns(q) THEN "dropped" ELSE r[c]]

\* mpsc::Sender::send: appends to the channel; with the receiver gone the
\* message is handed back in an Err, which every caller discards.
Send(q, m) == IF ReceiverAlive THEN Append(q, m) ELSE q

\* When send can return: the channel is mpsc::channel(), asynchronous and
\* without a bound, so a send returns at once whatever the channel holds (a
\* sync_channel(0) would make the sender wait for a receiver).
SendReadyRendezvous(q) == q = <<>>
SendReady(q) == TRUE

\* What mpsc::Receiver::recv leaves in the channel after returning its head.
RecvRestPeek(q) == q
RecvRest(q) == Tail(q)

\* The holder of the receiver's mutex while the arm of
\*     match rx.lock().unwrap().recv() { Ok(Message::Job(job)) => job(), .. }
\* runs: the MutexGuard is a temporary of the match scrutinee, and lives to
\* the end of the match, so worker w still holds the lock while job() runs.
GuardDuringJob(w) == w

\* The number of Terminate messages ThreadPool::shutdown sends.
TerminateCountShort(ws) == Len(ws) - 1
TerminateCount(ws) == Len(ws)

\* JoinHandle::join returns once the thread has ended.
JoinNoWait(h) == TRUE
JoinReady(h) == Ended(h)

Running(c) == \E w \in Workers : wpc[w] = "job" /\ wjob[w] = c
RunnerOf(c) == CHOOSE w \in Workers : wpc[w] = "job" /\ wjob[w] = c

\* Worker loop: rx.lock().unwrap()
WorkerLock(w) ==
    /\ wpc[w] = "lock"
    /\ rxLock = 0
    /\ rxLock' = w
    /\ wpc' = [wpc EXCEPT ![w] = "recv"]
    /\ UNCHANGED <<shutdown, main_pc, sd_i, dr_i, joining, workers, queue, wjob>>
    /\ UNCHANGED <<connVars, cacheVars, statVars, histVars>>

\* Worker loop: recv() returns Ok(Message::Job(job)); job() is entered.
WorkerRecvJob(w) ==
    /\ wpc[w] = "recv"
    /\ queue # <<>>
    /\ Head(queue).type = "Job"
    /\ LET c == Head(queue).conn
       IN /\ queue' = RecvRest(queue)
          /\ wpc' = [wpc EXCEPT ![w] = "job"]
          /\ wjob' = [wjob EXCEPT ![w] = c]
          /\ rxLock' = GuardDuringJob(w)
          /\ hpc' = [hpc EXCEPT ![c] = "read"]
          /\ runs' = [runs EXCEPT ![c] = @ + 1]
    /\ UNCHANGED <<shutdown, main_pc, sd_i, dr_i, joining, workers>>
    /\ UNCHANGED <<req, n, path, kind, out, hres>>
    /\ UNCHANGED <<cacheVars, statVars, inflight, ioErrs, rounds, arrival, sentBusy>>

\* Where the worker loop goes on Ok(Message::Terminate): break.
AfterTerminate == "stopped"

\* Worker loop: recv() returns Ok(Message::Terminate); break ends the thread
\* and drops the guard.  (The Err(_) arm needs every Sender dropped, which
\* happens only when main drops the pool, after all workers were joined.)
WorkerRecvTerminate(w) ==
    /\ wpc[w] = "recv"
    /\ queue # <<>>
    /\ Head(queue).type = "Terminate"
    /\ wpc' = [wpc EXCEPT ![w] = AfterTerminate]
    /\ rxLock' = 0
    /\ queue' = QueueAfterEnd(w, RecvRest(queue))
    /\ hpc' = HpcAfterEnd(w, RecvRest(queue), hpc)
    /\ hres' = HresAfterEnd(w, RecvRest(queue), hres)
    /\ UNCHANGED <<shutdown, main_pc, sd_i, dr_i, joining, workers, wjob>>
    /\ UNCHANGED <<req, n, path, kind, out>>
    /\ UNCHANGED <<cacheVars, statVars, histVars>>

\* Where the worker loop goes when job() has returned, whatever handle_conn
\* returned to the closure: the arm is over and the loop starts again.
AfterJob(res) == "lock"

\* Worker loop: job() returns (the closure has printed "conn error" if
\* handle_conn returned Err); the match ends, the guard is dropped, and the
\* loop starts over.  Part of the step in which handle_conn returns.
JobReturns(c) ==
    LET w == RunnerOf(c)
    IN /\ wpc' = [wpc EXCEPT ![w] = AfterJob(hres'[c])]
       /\ wjob' = [wjob EXCEPT ![w] = 0]
       /\ rxLock' = IF rxLock = w THEN 0 ELSE rxLock
       /\ UNCHANGED <<sd_i, dr_i, joining, workers, queue>>

\* Worker loop: job() panics.  The closure's eprintln!("conn error: {e}")
\* panics when standard error cannot be written, and nothing catches it
\* (job() is called with no catch_unwind): the thread of the worker unwinds
\* and ends, and the guard of the receiver's mutex, alive until the end of
\* the match, is dropped while the thread is panicking, which poisons the
\* mutex.  Part of the step in which handle_conn returns the Err.
JobPanics(c) ==
    LET w == RunnerOf(c)
    IN /\ wpc' = [wpc EXCEPT ![w] = "panicked"]
       /\ wjob' = [wjob EXCEPT ![w] = 0]
       /\ rxLock' = IF rxLock = w THEN Poisoned ELSE rxLock
       /\ queue' = QueueAfterEnd(w, queue)
       /\ hpc' = HpcAfterEnd(w, queue, [hpc EXCEPT ![c] = "closed"])
       /\ hres' = HresAfterEnd(w, queue, [hres EXCEPT ![c] = "panic"])
       /\ UNCHANGED <<sd_i, dr_i, joining, workers>>

\* Worker loop: rx.lock() returns Err(PoisonError) and unwrap() panics; the
\* thread ends, the mutex stays poisoned.
WorkerLockPoisoned(w) ==
    /\ wpc[w] = "lock"
    /\ rxLock = Poisoned
    /\ wpc' = [wpc EXCEPT ![w] = "panicked"]
    /\ queue' = QueueAfterEnd(w, queue)
    /\ hpc' = HpcAfterEnd(w, queue, hpc)
    /\ hres' = HresAfterEnd(w, queue, hres)
    /\ UNCHANGED <<shutdown, main_pc, sd_i, dr_i, joining, workers, rxLock, wjob>>
    /\ UNCHANGED <<req, n, path, kind, out>>
    /\ UNCHANGED <<cacheVars, statVars, histVars>>

\* ThreadPool::shutdown, first loop: one send of Terminate per iteration.
ShutdownSend ==
    /\ main_pc = "sd_send"
    /\ IF sd_i < TerminateCount(workers)
       THEN /\ SendReady(queue)
            /\ queue' = Send(queue, Terminate)
            /\ sd_i' = sd_i + 1
            /\ UNCHANGED main_pc
       ELSE /\ main_pc' = "sd_join"
            /\ UNCHANGED <<queue, sd_i>>
    /\ UNCHANGED <<shutdown, dr_i, joining, workers, rxLock, wpc, wjob>>
    /\ UNCHANGED <<connVars, cacheVars, statVars, histVars>>

\* A join loop, `while let Some(h) = self.workers.pop() { let _ = h.join(); }`,
\* run by main at `at`: pop removes the last handle; join then waits until
\* that thread has ended; with no handle left the loop is over and main
\* goes on at `to`.
JoinLoop(at, to) ==
    /\ main_pc = at
    /\ IF joining # 0
       THEN /\ JoinReady(joining)
            /\ joining' = 0
            /\ UNCHANGED <<workers, main_pc>>
       ELSE IF workers = <<>>
       THEN /\ main_pc' = to
            /\ UNCHANGED <<workers, joining>>
       ELSE /\ joining' = workers[Len(workers)]
            /\ workers' = SubSeq(workers, 1, Len(workers) - 1)
            /\ UNCHANGED main_pc
    /\ UNCHANGED <<shutdown, sd_i, dr_i, queue, rxLock, wpc, wjob>>
    /\ UNCHANGED <<connVars, cacheVars, statVars, histVars>>

\* ThreadPool::shutdown, second loop; when it is over shutdown() returns.
ShutdownJoin == JoinLoop("sd_join", "stats_lock")

\* Drop for ThreadPool, first loop: one send of Terminate per iteration,
\* one iteration per handle still in workers (after shutdown() there is
\* none).  The pool is dropped when main returns (from "drop"), or when
\* main unwinds (from "unwind").
PoolDropSend(at, to) ==
    /\ main_pc = at
    /\ IF dr_i < Len(workers)
       THEN /\ SendReady(queue)
            /\ queue' = Send(queue, Terminate)
            /\ dr_i' = dr_i + 1
            /\ UNCHANGED main_pc
       ELSE /\ main_pc' = to
            /\ UNCHANGED <<queue, dr_i>>
    /\ UNCHANGED <<shutdown, sd_i, joining, workers, rxLock, wpc, wjob>>
    /\ UNCHANGED <<connVars, cacheVars, statVars, histVars>>

\* Drop for ThreadPool, second loop; when it is over the pool is gone and
\* the process exits.
PoolDropJoin(at, to) == JoinLoop(at, to)

\* The pool dropped when main returns Ok(()): the process exits with 0.
PoolDrop ==
    \/ PoolDropSend("drop", "drop_join")
    \/ PoolDropJoin("drop_join", "done")

\* The pool dropped by the unwinding of main, after a panic of main: the
\* process exits with the code of the panic.
PoolDropUnwinding ==
    \/ PoolDropSend("unwind", "unwind_join")
    \/ PoolDropJoin("unwind_join", "aborted")

\* -------------------------------------------------------------------- main

Accepted == {c \in Conns : hpc[c] # "new"}
AcceptedIds == {c \in ConnIds : hpc[c] # "new"}

\* Where main goes on when an eprintln! or println! of its own has run:
\* on at `to` when the line was written, and into a panic, which unwinds
\* main, when standard error (or standard output) cannot be written.
AfterPrint(to) == {to, "unwind"}

\* Where the accept loop continues after an accept error other than
\* WouldBlock, once it is logged: it sleeps 100 ms and loops.
AfterAcceptError == "check"

\* Top of the accept loop: shutdown.load(); when it is set,
\* eprintln!("Shutting down ...") and break.
CheckFlag ==
    /\ main_pc = "check"
    /\ IF shutdown
       THEN /\ main_pc' \in AfterPrint("sd_send")
            /\ inflight' = {c \in AcceptedIds : hpc[c] # "closed"}
       ELSE /\ main_pc' = "accept"
            /\ UNCHANGED inflight
    /\ UNCHANGED <<shutdown, poolVars, connVars, cacheVars, statVars>>
    /\ UNCHANGED <<runs, ioErrs, rounds, arrival, sentBusy>>

\* ThreadPool::execute for the job of connection c: one send, which returns
\* at once.  With the receiver gone send hands the message back in an Err;
\* `let _ =` drops it, and with it the job and the stream it owns: the
\* connection is closed unanswered.
execute(c) ==
    /\ SendReady(queue)
    /\ queue' = Send(queue, Job(c))
    /\ hpc' = [hpc EXCEPT ![c] = IF ReceiverAlive THEN "queued" ELSE "closed"]
    /\ hres' = [hres EXCEPT ![c] = IF ReceiverAlive THEN "none" ELSE "dropped"]
    /\ sentBusy' = IF queue # <<>> /\ \E d \in ConnIds : Running(d)
                   THEN sentBusy \cup {c} ELSE sentBusy

\* listener.accept() returns a stream, the next of the connections of S;
\* pool.execute sends the job.
Accept(S, cl) ==
    /\ main_pc = "accept"
    /\ LET c == Cardinality(AcceptedIds) + 1
       IN /\ c \in S
          /\ req' = [req EXCEPT ![c] = cl]
          /\ arrival' = [arrival EXCEPT ![c] = rounds]
          /\ execute(c)
    /\ main_pc' = "check"
    /\ UNCHANGED <<shutdown, sd_i, dr_i, joining, workers, rxLock, wpc, wjob>>
    /\ UNCHANGED <<n, path, kind, out>>
    /\ UNCHANGED <<cacheVars, statVars, runs, inflight, ioErrs, rounds>>

AcceptOk(cl) == Accept(Conns, cl)

\* listener.accept() returns WouldBlock; sleep 50 ms and loop.
AcceptWouldBlock ==
    /\ main_pc = "accept"
    /\ main_pc' = "check"
    /\ UNCHANGED <<shutdown, poolVars, connVars, cacheVars, statVars, histVars>>

\* listener.accept() returns another error: eprintln!("accept error: {e}").
AcceptError ==
    /\ main_pc = "accept"
    /\ main_pc' \in AfterPrint(AfterAcceptError)
    /\ UNCHANGED <<shutdown, poolVars, connVars, cacheVars, statVars, histVars>>

\* SIGINT or SIGTERM arrives: signal_hook stores true into the flag.
Signal ==
    /\ main_pc \notin {"done", "aborted"}
    /\ ~shutdown
    /\ shutdown' = TRUE
    /\ UNCHANGED <<main_pc, poolVars, connVars, cacheVars, statVars, histVars>>

\* ------------------------------------------------------- print_cache_stats

\* The orders in which a HashMap may iterate over its entries.
Orders(m) ==
    {s \in [1..Cardinality(DOMAIN m) -> DOMAIN m] :
        \A i, j \in 1..Cardinality(DOMAIN m) : i # j => s[i] # s[j]}

\* items.sort_by(|a, b| b.1.cmp(&a.1)): a stable sort, larger counts first.
RECURSIVE InsertDesc(_, _)
InsertDesc(sorted, x) ==
    IF sorted = <<>> THEN <<x>>
    ELSE IF Head(sorted)[2] >= x[2]
         THEN <<Head(sorted)>> \o InsertDesc(Tail(sorted), x)
         ELSE <<x>> \o sorted

RECURSIVE SortDesc(_)
SortDesc(s) ==
    IF s = <<>> THEN <<>>
    ELSE InsertDesc(SortDesc(SubSeq(s, 1, Len(s) - 1)), s[Len(s)])

\* The line printed for an empty cache, in the shape of the other lines.
EmptyLine == <<<<"(empty)">>, 0>>

\* cache.lock().unwrap() in print_cache_stats.
StatsLock ==
    /\ main_pc = "stats_lock"
    /\ cacheLock = 0
    /\ cacheLock' = -1
    /\ main_pc' = "stats_clone"
    /\ UNCHANGED <<shutdown, poolVars, connVars, cache, statVars, histVars>>

\* The entries are cloned into items; the guard is dropped with the block.
StatsClone ==
    /\ main_pc = "stats_clone"
    /\ \E o \in Orders(cache) :
          items' = [i \in 1..Len(o) |-> <<o[i], cache[o[i]]>>]
    /\ cacheLock' = 0
    /\ main_pc' = "stats_print"
    /\ UNCHANGED <<shutdown, poolVars, connVars, cache, printed, histVars>>

\* The lines print_cache_stats has to print after its heading: the sorted
\* items, or "(empty)" when there is none.
StatsLines(its) == IF its = <<>> THEN <<EmptyLine>> ELSE SortDesc(its)

\* The items are sorted and printed; a println! that cannot write to
\* standard output panics, with the lines before it printed.
StatsPrint ==
    /\ main_pc = "stats_print"
    /\ items' = SortDesc(items)
    /\ \/ /\ printed' = StatsLines(items)
          /\ main_pc' = "drop"
       \/ /\ \E k \in 0..(Len(StatsLines(items)) - 1) :
                printed' = SubSeq(StatsLines(items), 1, k)
          /\ main_pc' = "unwind"
    /\ UNCHANGED <<shutdown, poolVars, connVars, cacheVars, histVars>>

\* ------------------------------------------------------------- handle_conn

Data(c) == req[c].data
Buf(c, len) == SubSeq(Data(c), 1, len)

\* The holder of the cache mutex after the lookup block: the guard `map` is
\* a local of the block and is dropped at its end, hit or miss.
KeepLockOnMiss(c, hit) == IF hit THEN 0 ELSE c
AfterLookupBlock(c, hit) == 0

\* map.get_mut(&path) is Some: the path is a key of the map.
get_mut_none(m, k) == FALSE
get_mut(m, k) == k \in DOMAIN m

\* map.entry(path).or_insert(0): the entry is created with 0 when absent.
or_insert(m, k, v) ==
    [p \in DOMAIN m \cup {k} |-> IF p \in DOMAIN m THEN m[p] ELSE v]

\* *entry += 1 and *cnt += 1.
IncrementTwice(m, k) == [m EXCEPT ![k] = @ + 2]
KeepCount(m, k) == m
Increment(m, k) == [m EXCEPT ![k] = @ + 1]

\* The bytes one stream.read(&mut buf[n..]) returns: what has arrived, up to
\* the next cut of the client's stream, and no more than the buffer has room
\* for.
ReadLen(c) ==
    LET ends == {k \in req[c].cuts \cup {Len(Data(c))} : k > n[c]}
        next == IF ends = {} THEN n[c]
                ELSE CHOOSE k \in ends : \A j \in ends : k <= j
    IN Min(next - n[c], BufLen - n[c])

\* stream.read returns readn > 0 bytes.  A CRLF among the bytes read so far
\* ends the loop with the request line parsed; a full buffer without one
\* ends it at the next `n == buf.len()` test.  (len is n after the read and
\* line_end the result of find_crlf, each computed once.)
Read(c) ==
    /\ Running(c)
    /\ hpc[c] = "read"
    /\ ReadLen(c) >= 1
    /\ \E len \in {n[c] + ReadLen(c)}, line_end \in {find_crlf(Buf(c, n[c] + ReadLen(c)))} :
          /\ n' = [n EXCEPT ![c] = len]
          /\ IF line_end >= 0
             THEN /\ path' = [path EXCEPT ![c] =
                        parse_path_from_request_line(Buf(c, line_end))]
                  /\ hpc' = [hpc EXCEPT ![c] = "lookup_lock"]
                  /\ UNCHANGED kind
             ELSE IF len = BufLen
             THEN /\ hpc' = [hpc EXCEPT ![c] = "respond"]
                  /\ kind' = [kind EXCEPT ![c] = "bad"]
                  /\ UNCHANGED path
             ELSE UNCHANGED <<hpc, path, kind>>
    /\ UNCHANGED <<shutdown, main_pc, poolVars, req, out, hres>>
    /\ UNCHANGED <<cacheVars, statVars, histVars>>

\* stream.read returns 0: the peer has closed and nothing is left to read.
\* handle_conn returns Ok(()) without writing.
ReadEof(c) ==
    /\ Running(c)
    /\ hpc[c] = "read"
    /\ n[c] = Len(Data(c))
    /\ req[c].ending = "close"
    /\ hres' = [hres EXCEPT ![c] = "silent"]
    /\ hpc' = [hpc EXCEPT ![c] = "closed"]
    /\ JobReturns(c)
    /\ UNCHANGED <<shutdown, main_pc, req, n, path, kind, out>>
    /\ UNCHANGED <<cacheVars, statVars, histVars>>

\* cache.lock().unwrap() of the lookup block.
LookupLock(c) ==
    /\ Running(c)
    /\ hpc[c] = "lookup_lock"
    /\ cacheLock = 0
    /\ cacheLock' = c
    /\ hpc' = [hpc EXCEPT ![c] = "lookup"]
    /\ UNCHANGED <<shutdown, main_pc, poolVars, req, n, path, kind, out, hres>>
    /\ UNCHANGED <<cache, statVars, histVars>>

\* The lookup block: get_mut, and on Some the increment and hit = true.
Lookup(c) ==
    /\ Running(c)
    /\ hpc[c] = "lookup"
    /\ LET hit == get_mut(cache, path[c])
       IN /\ cache' = IF hit THEN Increment(cache, path[c]) ELSE cache
          /\ kind' = [kind EXCEPT ![c] = IF hit THEN "hit" ELSE "miss"]
          /\ hpc' = [hpc EXCEPT ![c] = IF hit THEN "respond" ELSE "sleep"]
          /\ cacheLock' = AfterLookupBlock(c, hit)
    /\ UNCHANGED <<shutdown, main_pc, poolVars, req, n, path, out, hres>>
    /\ UNCHANGED <<statVars, histVars>>

\* thread::sleep(1s) returns.
SleepDone(c) ==
    /\ Running(c)
    /\ hpc[c] = "sleep"
    /\ hpc' = [hpc EXCEPT ![c] = "insert_lock"]
    /\ UNCHANGED <<shutdown, main_pc, poolVars, req, n, path, kind, out, hres>>
    /\ UNCHANGED <<cacheVars, statVars, histVars>>

\* cache.lock().unwrap() of the insert block, and
\* map.entry(path.clone()).or_insert(0).
InsertEntry(c) ==
    /\ Running(c)
    /\ hpc[c] = "insert_lock"
    /\ cacheLock = 0
    /\ cacheLock' = c
    /\ cache' = or_insert(cache, path[c], 0)
    /\ hpc' = [hpc EXCEPT ![c] = "insert_inc"]
    /\ UNCHANGED <<shutdown, main_pc, poolVars, req, n, path, kind, out, hres>>
    /\ UNCHANGED <<statVars, histVars>>

\* *entry += 1; the guard is dropped with the block.
InsertInc(c) ==
    /\ Running(c)
    /\ hpc[c] = "insert_inc"
    /\ cache' = Increment(cache, path[c])
    /\ cacheLock' = 0
    /\ hpc' = [hpc EXCEPT ![c] = "respond"]
    /\ UNCHANGED <<shutdown, main_pc, poolVars, req, n, path, kind, out, hres>>
    /\ UNCHANGED <<statVars, histVars>>

Body(c) == IF kind[c] = "hit" THEN HitBody(path[c])
           ELSE IF kind[c] = "miss" THEN MissBody(path[c])
           ELSE <<>>

\* The calls that write a response: write_all(header), write_all(body) and
\* flush for a 200; write_all(resp) and flush for the 400.
NCalls(c) == IF kind[c] = "bad" THEN 2 ELSE 3

\* The stream after the first k of these calls have returned Ok.
Written(c, k) ==
    [status |-> IF k = 0 THEN 0 ELSE IF kind[c] = "bad" THEN 400 ELSE 200,
     clen   |-> IF k = 0 \/ kind[c] = "bad" THEN 0 ELSE ContentLength(Body(c)),
     body   |-> IF k >= 2 /\ kind[c] # "bad" THEN as_bytes(Body(c)) ELSE <<>>,
     calls  |-> k]

\* The response is written and flushed; handle_conn returns Ok(()) and the
\* stream is dropped.
Respond(c) ==
    /\ Running(c)
    /\ hpc[c] = "respond"
    /\ out' = [out EXCEPT ![c] = Written(c, NCalls(c))]
    /\ hres' = [hres EXCEPT ![c] = "ok"]
    /\ hpc' = [hpc EXCEPT ![c] = "closed"]
    /\ JobReturns(c)
    /\ UNCHANGED <<shutdown, main_pc, req, n, path, kind>>
    /\ UNCHANGED <<cacheVars, statVars, histVars>>

\* A read, write_all or flush returns Err: `?` returns it from handle_conn,
\* after k of the response's calls went through, and the job closure runs
\* eprintln!("conn error: {e}"): the line is written and job() returns, or
\* standard error cannot be written and the closure panics.
IoError(c) ==
    /\ Running(c)
    /\ hpc[c] \in {"read", "respond"}
    /\ ioErrs < MaxIoErrors
    /\ ioErrs' = ioErrs + 1
    /\ IF hpc[c] = "read"
       THEN UNCHANGED out
       ELSE \E k \in 0..(NCalls(c) - 1) : out' = [out EXCEPT ![c] = Written(c, k)]
    /\ \/ /\ hres' = [hres EXCEPT ![c] = "ioerr"]
          /\ hpc' = [hpc EXCEPT ![c] = "closed"]
          /\ JobReturns(c)
       \/ JobPanics(c)
    /\ UNCHANGED <<shutdown, main_pc, req, n, path, kind>>
    /\ UNCHANGED <<cacheVars, statVars, runs, inflight, rounds, arrival, sentBusy>>

\* ----------------------------------------------------------- specifications

\* The steps of the main thread, serving the clients of the set CS.
MainStepWith(CS) ==
    \/ CheckFlag
    \/ \E cl \in CS : AcceptOk(cl)
    \/ AcceptWouldBlock
    \/ AcceptError
    \/ ShutdownSend
    \/ ShutdownJoin
    \/ StatsLock
    \/ StatsClone
    \/ StatsPrint
    \/ PoolDrop
    \/ PoolDropUnwinding

MainStep == MainStepWith(Clients)

\* The steps of handle_conn that do not wait for the simulated delay and do
\* not fail.
HandlerStep(c) ==
    \/ Read(c)
    \/ ReadEof(c)
    \/ LookupLock(c)
    \/ Lookup(c)
    \/ InsertEntry(c)
    \/ InsertInc(c)
    \/ Respond(c)

WorkerStep(w) ==
    \/ WorkerLock(w)
    \/ WorkerLockPoisoned(w)
    \/ WorkerRecvJob(w)
    \/ WorkerRecvTerminate(w)

NextUntimed ==
    \/ MainStep
    \/ Signal
    \/ \E w \in Workers : WorkerStep(w)
    \/ \E c \in Conns : HandlerStep(c)
    \/ \E c \in Conns : IoError(c)

Next ==
    \/ NextUntimed
    \/ \E c \in Conns : SleepDone(c)

Spec == Init /\ [][Next]_vars

\* Every thread that can take a step eventually takes one: the threads are
\* OS threads under a preemptive scheduler.  A worker thread's steps are its
\* loop's and those of the job it runs; an I/O error is never owed.
ThreadStep(w) ==
    \/ WorkerStep(w)
    \/ \E c \in Conns : wjob[w] = c /\ (HandlerStep(c) \/ SleepDone(c))

\* The program serving the clients of the set CS.
NextWith(CS) ==
    \/ MainStepWith(CS)
    \/ Signal
    \/ \E w \in Workers : WorkerStep(w)
    \/ \E c \in Conns : HandlerStep(c)
    \/ \E c \in Conns : SleepDone(c)
    \/ \E c \in Conns : IoError(c)

FairSpec ==
    /\ Spec
    /\ WF_vars(MainStep)
    /\ \A w \in Workers : WF_vars(ThreadStep(w))

\* Time, for the claims that count delay rounds.  Every step but the
\* simulated delay takes no time against the 1 s sleep: a delay round ends,
\* and every sleeping handler wakes, only when no worker thread can take
\* another step.  What the outside does (signals, arrivals, I/O errors) is
\* not hurried.
UrgentStep ==
    \/ \E w \in Workers : WorkerStep(w)
    \/ \E c \in Conns : HandlerStep(c)

Tick ==
    /\ \E c \in Conns : hpc[c] = "sleep"
    /\ ~ENABLED UrgentStep
    /\ hpc' = [c \in ConnIds |-> IF hpc[c] = "sleep" THEN "insert_lock" ELSE hpc[c]]
    /\ rounds' = rounds + 1
    /\ UNCHANGED <<shutdown, main_pc, poolVars, req, n, path, kind, out, hres>>
    /\ UNCHANGED <<cacheVars, statVars, runs, inflight, ioErrs, arrival, sentBusy>>

NextTimed ==
    \/ NextUntimed
    \/ Tick

SpecTimed == Init /\ [][NextTimed]_vars

\* ------------------------------------------------------------------ claims

CeilDiv(a, b) == (a + b - 1) \div b

\* Spec's worker states: Idle, Running, Stopped.
Idle(w) == wpc[w] \in {"lock", "recv"}
Busy(w) == wpc[w] = "job"
Stopped(w) == wpc[w] = "stopped"

\* C1: the pool runs work items in parallel.  When every connection of the
\* run arrives before the first delay round has ended, each asks for a path
\* of its own and each is a first-time request (a miss), they are all done
\* within ceil(N / worker_count) delay rounds.
C1_ParallelRounds ==
    ( /\ \A c \in Conns : hres[c] = "ok" /\ kind[c] = "miss" /\ arrival[c] = 0
      /\ \A c, d \in Conns : c # d => path[c] # path[d] )
    => rounds <= CeilDiv(MaxConns, NumWorkers)

\* What the code does instead: a worker holds the receiver's mutex for as
\* long as its job runs, so no two workers are ever Running together.
OneJobAtATime == Cardinality({w \in Workers : Busy(w)}) <= 1

ShutdownReturned ==
    main_pc \in {"stats_lock", "stats_clone", "stats_print", "drop", "drop_join",
                 "done"}

JobsIn(q) == {i \in 1..Len(q) : q[i].type = "Job"}

\* C2: shutdown drains.  Once shutdown() has returned every accepted
\* connection's job has been dequeued once and has run to its end; a worker
\* that takes a Terminate leaves no Job behind in the queue; and a handler
\* that has started ends only by its own return, with its result set, and
\* is never taken back or restarted.
C2_Drain ==
    /\ [](ShutdownReturned =>
            \A c \in Accepted : hpc[c] = "closed" /\ runs[c] = 1)
    /\ [][\A w \in Workers :
            (wpc[w] = "recv" /\ wpc'[w] = "stopped") => JobsIn(queue) = {}]_vars
    /\ [][\A c \in Conns :
            hpc[c] \notin {"new", "queued", "closed"} =>
                /\ hpc'[c] \notin {"new", "queued"}
                /\ hpc'[c] = "closed" => hres'[c] \in {"ok", "silent", "ioerr"}]_vars

\* No worker thread has ended by a panic.
NoPanic == \A w \in Workers : wpc[w] # "panicked"

\* What the code does: shutdown() drains the jobs unless a worker has ended
\* by a panic; the jobs then left in the channel are dropped unrun.
DrainUnlessPanic ==
    /\ (ShutdownReturned /\ NoPanic) =>
            \A c \in Accepted : hpc[c] = "closed" /\ runs[c] = 1
    /\ ShutdownReturned =>
            \A c \in Accepted : hpc[c] = "closed" /\ (runs[c] = 1 \/ hres[c] = "dropped")

\* C3: each work item is claimed by at most one worker and run at most once.
C3_AtMostOnce ==
    \A c \in Conns :
        /\ runs[c] <= 1
        /\ Cardinality({w \in Workers : wpc[w] = "job" /\ wjob[w] = c}) <= 1
        /\ Cardinality({i \in 1..Len(queue) : queue[i] = Job(c)}) + runs[c] <= 1

\* C3 witness: every connection's job has been run, by different workers.
C3_Witness ==
    /\ \A c \in Conns : runs[c] = 1
    /\ hpc[1] = "closed"
    /\ \E w \in Workers : w # 1 /\ Busy(w) /\ wpc[1] = "lock"

\* A job ends if its client sends a line end within the buffer, fills the
\* buffer, or closes; a client that stalls short of that blocks the read
\* for ever.
JobEnds(cl) ==
    \/ cl.ending = "close"
    \/ Len(cl.data) >= BufLen
    \/ find_crlf(cl.data) >= 0

ValidResponse(c) ==
    /\ out[c].status \in {200, 400}
    /\ out[c].calls = IF out[c].status = 400 THEN 2 ELSE 3
    /\ out[c].clen = Len(out[c].body)
    /\ out[c].status = 400 => out[c].body = <<>>

\* The peer closed before it had sent a line end or filled the buffer.
PeerClosedEarly(cl) ==
    /\ cl.ending = "close"
    /\ Len(cl.data) < BufLen
    /\ find_crlf(cl.data) < 0

\* C5: whatever the clients do, each connection in flight when shutdown was
\* triggered has received a valid response when the process exits.
C5_AllInflightAnswered ==
    main_pc = "done" => \A c \in inflight : ValidResponse(c)

\* What the code does: a connection in flight at shutdown has a valid
\* response at the exit unless its peer closed before the line end, one
\* of its I/O calls failed, or its job was dropped unrun by a panic.
InflightAnsweredUnless ==
    main_pc = "done" =>
        \A c \in inflight :
            /\ hpc[c] = "closed"
            /\ \/ ValidResponse(c)
               \/ hres[c] = "silent" /\ PeerClosedEarly(req[c])
               \/ hres[c] \in {"ioerr", "panic", "dropped"}

\* The statistics as a map from path to count.
ItemsMap(its) ==
    [p \in {its[i][1] : i \in 1..Len(its)} |->
        its[CHOOSE i \in 1..Len(its) : its[i][1] = p][2]]

SnapshotTaken == main_pc \in {"stats_print", "drop", "drop_join", "done"}

InLoop == main_pc \in {"check", "accept"}

\* C7: the accept loop is left only from its top with the flag read as set;
\* once it is left it is never entered again, no connection is accepted and
\* no job is sent to the pool.
C7_LoopExit ==
    /\ [][InLoop /\ ~InLoop' => main_pc = "check" /\ shutdown]_vars
    /\ [][~InLoop =>
            /\ ~InLoop'
            /\ Accepted' = Accepted
            /\ Cardinality(JobsIn(queue')) <= Cardinality(JobsIn(queue))]_vars

\* What the code does: the loop is left from its top with the flag read as
\* set, or by a panic of main's eprintln!, from either place.
LoopExitOrPanic ==
    [][InLoop /\ ~InLoop' =>
          \/ main_pc = "check" /\ shutdown /\ main_pc' = "sd_send"
          \/ main_pc' = "unwind"]_vars

\* C8: two requests for the same unseen path that race each other both
\* miss.  When two connections arrive before the first delay round has
\* ended, with a worker for each, both ask for the same path and nothing
\* else asked for it, then both are answered as misses and the count of
\* the path ends at 2.
C8_RacingMisses ==
    \A c, d \in Conns :
        ( /\ c # d
          /\ MaxConns <= NumWorkers
          /\ arrival[c] = 0 /\ arrival[d] = 0
          /\ hres[c] = "ok" /\ hres[d] = "ok"
          /\ kind[c] # "bad" /\ kind[d] # "bad"
          /\ path[c] = path[d]
          /\ \A e \in Conns \ {c, d} : path[e] # path[c] )
        => kind[c] = "miss" /\ kind[d] = "miss" /\ cache[path[c]] = 2

\* What the code does instead: handlers never overlap, so no two of them
\* are ever between a missed lookup and their insert together.
NoTwoInMissWindow ==
    Cardinality({c \in Conns : hpc[c] \in {"sleep", "insert_lock", "insert_inc"}}) <= 1

\* C9: the cache lock is held only inside the lookup block, the insert block
\* and the clone of print_cache_stats: never by a handler that is reading,
\* sleeping, writing or done, never by main while it prints.
C9_LockScope ==
    /\ \A c \in Conns : cacheLock = c => hpc[c] \in {"lookup", "insert_inc"}
    /\ cacheLock = -1 => main_pc = "stats_clone"
    /\ cacheLock \in {-1, 0} \cup Conns

\* C9 witness: a handler sleeps in the simulated delay while the lock is
\* free, after another handler has used it.
C9_Witness ==
    /\ \E c \in Conns : hpc[c] = "sleep"
    /\ cacheLock = 0
    /\ cache # EmptyMap

\* C10, as stated: in every state a holder of the cache lock observes,
\* every entry counts at least 1; and in no step is an entry removed or its
\* count lowered.
C10_CountsPositiveHeld ==
    cacheLock # 0 => \A p \in DOMAIN cache : cache[p] >= 1

\* C10, amended: every entry counts at least 1 but the one a handler has
\* just created with or_insert(0) and not yet incremented, a state only
\* that handler, holding the lock, observes; whenever the lock is free every
\* entry counts at least 1; and in no step is an entry removed or its count
\* lowered.
C10_CountsPositive ==
    /\ [](\A p \in DOMAIN cache :
            \/ cache[p] >= 1
            \/ /\ cache[p] = 0
               /\ \E c \in Conns :
                     cacheLock = c /\ hpc[c] = "insert_inc" /\ path[c] = p)
    /\ [](cacheLock = 0 => \A p \in DOMAIN cache : cache[p] >= 1)
    /\ [][\A p \in DOMAIN cache :
            p \in DOMAIN cache' /\ cache'[p] >= cache[p]]_vars

\* C10 witness: a handler holds the lock on the entry it has just created,
\* still 0, beside the entry of another path, created and counted by an
\* earlier miss.
C10_Witness ==
    /\ \E c \in Conns :
          cacheLock = c /\ hpc[c] = "insert_inc" /\ cache[path[c]] = 0
    /\ \E p \in DOMAIN cache : cache[p] = 1

\* ------------------------------------------- C11: sequential GET requests

\* The request "GET <p>" with its line end, sent in one piece by a client
\* that then waits for the answer.
SeqPaths == { <<"/", "a">>, <<"/", "b">>, <<"/">> }
GetReq(p) == MethodGET \o <<SP>> \o p \o <<CR, LF>>
SeqClients == { [data |-> GetReq(p), cuts |-> {}, ending |-> "close"] : p \in SeqPaths }

\* A client connects only when every earlier connection has been answered
\* and closed.
AcceptSeq(cl) ==
    /\ \A c \in Accepted : hpc[c] = "closed"
    /\ AcceptOk(cl)

\* The program serving such clients, with no signal and no I/O failure, and
\* with time counted in delay rounds.
NextSeq ==
    \/ CheckFlag
    \/ \E cl \in SeqClients : AcceptSeq(cl)
    \/ AcceptWouldBlock
    \/ AcceptError
    \/ PoolDropUnwinding
    \/ \E w \in Workers : WorkerLock(w) \/ WorkerRecvJob(w) \/ WorkerRecvTerminate(w)
    \/ \E c \in Conns : Read(c) \/ LookupLock(c) \/ Lookup(c)
    \/ \E c \in Conns : InsertEntry(c) \/ InsertInc(c) \/ Respond(c)
    \/ Tick

SpecSeq == Init /\ [][NextSeq]_vars

\* C11: k sequential requests GET P on an empty cache.  Whenever the k
\* connections accepted so far all asked for P and all are done, the first
\* was answered 200 with body P, each later one 200 with body P, a space and
\* the hit marker, the stored count of P is k, and exactly one delay round
\* has gone by: that of the first request.
C11_Sequential ==
    \A p \in SeqPaths :
        LET k == Cardinality(Accepted)
        IN ( /\ k >= 1
             /\ \A c \in Accepted : req[c].data = GetReq(p) /\ hpc[c] = "closed" )
           => /\ cache = [q \in {p} |-> k]
              /\ out[1] = [status |-> 200, clen |-> Len(p), body |-> p, calls |-> 3]
              /\ \A c \in 2..k :
                    out[c] = [status |-> 200, clen |-> Len(p) + 5,
                              body |-> p \o <<SP>> \o EmojiBytes, calls |-> 3]
              /\ rounds = 1

\* C11 witness: as many sequential requests for one path as the run has
\* connections are done, and the path counts that many.
C11_Witness ==
    /\ \A c \in Conns : hpc[c] = "closed" /\ req[c].data = GetReq(<<"/", "a">>)
    /\ cache[<<"/", "a">>] = MaxConns
    /\ kind[MaxConns] = "hit"

\* ---------------------------------------------------- C12: hit and miss

\* C12: a handler takes the hit path exactly when its path is in the cache
\* at its lookup.  A hit increments the count once, inside the lookup block,
\* goes straight to the response and never holds the cache lock again.  A
\* miss leaves the cache alone at the lookup, then sleeps, then inserts the
\* path with count 1 or increments it, then answers 200 with the path as
\* body, in that order.
C12_HitMissOrder ==
    /\ [][\A c \in Conns : (hpc[c] = "lookup" /\ hpc'[c] # "lookup") =>
            /\ (kind'[c] = "hit") <=> (path[c] \in DOMAIN cache)
            /\ (kind'[c] = "miss") <=> (path[c] \notin DOMAIN cache)
            /\ kind'[c] = "hit" =>
                  /\ hpc'[c] = "respond"
                  /\ cache' = [cache EXCEPT ![path[c]] = @ + 1]
            /\ kind'[c] = "miss" =>
                  /\ hpc'[c] = "sleep"
                  /\ cache' = cache]_vars
    /\ [](\A c \in Conns : kind[c] = "hit" =>
            /\ hpc[c] \in {"respond", "closed"}
            /\ cacheLock # c)
    /\ [][\A c \in Conns : kind[c] = "miss" =>
            /\ hpc[c] = "sleep" => hpc'[c] \in {"sleep", "insert_lock"}
            /\ hpc[c] = "insert_lock" => hpc'[c] \in {"insert_lock", "insert_inc"}
            /\ hpc[c] = "insert_inc" => hpc'[c] \in {"insert_inc", "respond"}
            /\ hpc[c] = "respond" => hpc'[c] \in {"respond", "closed"}
            /\ (hpc[c] = "insert_lock" /\ hpc'[c] = "insert_inc") =>
                  cache' = [p \in DOMAIN cache \cup {path[c]} |->
                               IF p \in DOMAIN cache THEN cache[p] ELSE 0]
            /\ (hpc[c] = "insert_inc" /\ hpc'[c] = "respond") =>
                  cache' = [cache EXCEPT ![path[c]] = @ + 1]
            /\ (hpc[c] = "respond" /\ hres'[c] = "ok") =>
                  /\ out'[c].status = 200
                  /\ out'[c].body = as_bytes(path[c])]_vars

\* C12 witness: a miss and a hit have both been answered.
C12_Witness ==
    \E c, d \in Conns :
        /\ kind[c] = "miss" /\ hres[c] = "ok"
        /\ kind[d] = "hit" /\ hres[d] = "ok"
        /\ out[d].body = as_bytes(path[d]) \o <<SP>> \o EmojiBytes

\* ------------------------------------------- peers that close or fill up

\* A peer that sends part of a request line and closes.
ReqPartialClose == [data |-> ReqPartial, cuts |-> {}, ending |-> "close"]

\* A request line whose CRLF ends exactly at the buffer's capacity, the LF
\* arriving alone in the read that fills the buffer.
ReqFill == [i \in 1..(BufLen - 2) |-> "x"] \o <<CR, LF>>

\* BufLen bytes ending in CR, with the LF behind them: the LF has no room in
\* the buffer.
ReqCrAtEnd == [i \in 1..(BufLen - 1) |-> "x"] \o <<CR, LF>>

\* Peers that all close their side in the end, after a request, after a
\* part of one, or at once.
PeerClients == { c \in Clients : c.ending = "close" } \cup { ReqPartialClose }

\* Peers whose bytes reach the capacity of the buffer, and one that stops
\* short of it.
BufClients ==
    { [data |-> ReqFill,    cuts |-> {BufLen - 1}, ending |-> "close"],
      [data |-> ReqCrAtEnd, cuts |-> {},           ending |-> "close"],
      [data |-> ReqJunk,    cuts |-> {},           ending |-> "close"],
      ReqPartialClose }

NextPeers == NextWith(PeerClients)
SpecPeers == Init /\ [][NextPeers]_vars

NextBuf == NextWith(BufClients)
SpecBuf == Init /\ [][NextBuf]_vars

\* C13: a handler that has read at least one byte and met no I/O error (it
\* returned Ok: its result is "ok" or "silent") has written one complete
\* response, 200 or 400, when it is closed; a handler
\* that ends without a response has read nothing; and what a handler wrote
\* is never followed by more.
C13_OneResponse ==
    \A c \in Conns :
        (hpc[c] = "closed" /\ hres[c] \in {"ok", "silent"}) =>
            \/ ValidResponse(c)
            \/ n[c] = 0 /\ hres[c] = "silent" /\ out[c] = NoOut

\* What the code does: a read that returns 0 ends the handler in silence,
\* on the first read or on a later one.
SilentIffPeerClosed ==
    \A c \in Conns :
        (hpc[c] = "closed" /\ hres[c] \in {"ok", "silent"}) =>
            /\ hres[c] = "silent" <=> PeerClosedEarly(req[c])
            /\ hres[c] = "silent" => out[c] = NoOut /\ n[c] = Len(req[c].data)

\* ------------------------------------------------------------ C14: the 400

\* A CR immediately followed by LF is among the first len bytes of the
\* connection's stream.
HasCrlf(c, len) ==
    \E i \in 1..(len - 1) : req[c].data[i] = CR /\ req[c].data[i + 1] = LF

Response400 == [status |-> 400, clen |-> 0, body |-> <<>>, calls |-> 2]

\* C14: a handler decides on the 400 exactly when it has read as many bytes
\* as the buffer holds and no CRLF is among them; the 400 goes out with an
\* empty body and is the only way to a 400; a CRLF among the bytes read,
\* were it completed by the read that fills the buffer, gives a 200; and a
\* handler on its way to a 400 never parsed a path nor held the cache lock,
\* so that a run of such handlers leaves the cache empty.
C14_BadRequest ==
    /\ \A c \in Conns :
          /\ kind[c] = "bad" <=> (n[c] = BufLen /\ ~HasCrlf(c, BufLen))
          /\ out[c].status = 400 => kind[c] = "bad"
          /\ (kind[c] = "bad" /\ hres[c] = "ok") => out[c] = Response400
          /\ (hres[c] = "ok" /\ HasCrlf(c, n[c])) => out[c].status = 200
          /\ kind[c] = "bad" => path[c] = <<>> /\ cacheLock # c
    /\ (\A c \in Conns : kind[c] \in {"none", "bad"} /\ hpc[c] \in {"new", "queued", "read", "respond", "closed"})
          => cache = EmptyMap

\* C14 witness: one handler answered 200 to a line whose CRLF ended with the
\* last byte of the buffer, another answered 400 to a full buffer that ends
\* in a CR.
C14_Witness ==
    \E c, d \in Conns :
        /\ req[c].data = ReqFill /\ n[c] = BufLen /\ hres[c] = "ok"
        /\ out[c].status = 200
        /\ req[d].data = ReqCrAtEnd /\ n[d] = BufLen /\ hres[d] = "ok"
        /\ out[d] = Response400

\* ------------------------------------------------ C15: the effective path

\* Request lines, each fitting the buffer with its CRLF: every short
\* sequence of the bytes of "GET" and the space, and a method followed by a
\* path token of ASCII, invalid, lead and continuation bytes (among the
\* tokens are U+FFFD itself, EF BF BD, and the cut-off sequence E2 82).
LineBytes == {"G", "E", "T", SP}
PathBytes == {"a", XX, "E2", "82", "EF", "BF", "BD"}
MaxLineLen == BufLen - 2

RECURSIVE SeqsUpTo(_, _)
SeqsUpTo(S, len) ==
    IF len = 0 THEN {<<>>}
    ELSE LET shorter == SeqsUpTo(S, len - 1)
         IN shorter \cup {Append(s, x) : s \in {t \in shorter : Len(t) = len - 1}, x \in S}

Lines ==
    SeqsUpTo(LineBytes, MaxLineLen - 2)
    \cup {l \in {m \o <<SP>> \o t \o e :
                    m \in {MethodGET, <<"T">>},
                    t \in SeqsUpTo(PathBytes, MaxLineLen - 4),
                    e \in {<<>>, <<SP, "T">>}} : Len(l) <= MaxLineLen}

LineClient(line) == [data |-> line \o <<CR, LF>>, cuts |-> {}, ending |-> "close"]

\* Every connection of the run has been accepted from a client that sends
\* the same request line, and a worker has just taken the first job.
InitParse ==
    \E line \in Lines :
        /\ shutdown = FALSE
        /\ main_pc = "check"
        /\ sd_i = 0
        /\ dr_i = 0
        /\ joining = 0
        /\ workers = [i \in 1..NumWorkers |-> i]
        /\ queue = [i \in 1..(MaxConns - 1) |-> Job(i + 1)]
        /\ rxLock = GuardDuringJob(1)
        /\ wpc = [w \in Workers |-> IF w = 1 THEN "job" ELSE "lock"]
        /\ wjob = [w \in Workers |-> IF w = 1 THEN 1 ELSE 0]
        /\ hpc = [c \in ConnIds |-> IF c = 1 THEN "read"
                                ELSE IF c \in Conns THEN "queued" ELSE "new"]
        /\ req = [c \in ConnIds |-> IF c \in Conns THEN LineClient(line) ELSE NoClient]
        /\ n = [c \in ConnIds |-> 0]
        /\ path = [c \in ConnIds |-> <<>>]
        /\ kind = [c \in ConnIds |-> "none"]
        /\ out = [c \in ConnIds |-> NoOut]
        /\ hres = [c \in ConnIds |-> "none"]
        /\ cache = EmptyMap
        /\ cacheLock = 0
        /\ items = <<>>
        /\ printed = <<>>
        /\ runs = [c \in ConnIds |-> IF c = 1 THEN 1 ELSE 0]
        /\ inflight = {}
        /\ ioErrs = 0
        /\ rounds = 0
        /\ arrival = [c \in ConnIds |-> 0]
        /\ sentBusy = {}

\* The workers and the handlers from there on, with no I/O failure.
NextParse ==
    \/ \E w \in Workers : WorkerLock(w) \/ WorkerRecvJob(w)
    \/ \E c \in Conns : Read(c) \/ LookupLock(c) \/ Lookup(c) \/ SleepDone(c)
    \/ \E c \in Conns : InsertEntry(c) \/ InsertInc(c) \/ Respond(c)

SpecParse == InitParse /\ [][NextParse]_vars

\* The request line of a connection: its bytes before the CRLF.
LineOf(c) == SubSeq(req[c].data, 1, Len(req[c].data) - 2)

\* The positions of the spaces of a line, and the first and the second
\* space-separated token.
Spaces(line) == {i \in 1..Len(line) : line[i] = SP}
NextSpace(line, from) ==
    IF \E i \in Spaces(line) : i >= from
    THEN CHOOSE i \in Spaces(line) : i >= from /\ \A j \in Spaces(line) : j >= from => i <= j
    ELSE Len(line) + 1
FirstToken(line) == SubSeq(line, 1, NextSpace(line, 1) - 1)
SecondToken(line) ==
    SubSeq(line, NextSpace(line, 1) + 1, NextSpace(line, NextSpace(line, 1) + 1) - 1)

\* Permissive decoding: what is no valid encoding is replaced by U+FFFD.
Decoded(tok) == from_utf8_lossy(tok)

\* A token of ASCII bytes only.
Ascii(tok) == \A i \in 1..Len(tok) : ByteVal(tok[i]) = 0

\* The effective path as the claim words it.
EffectivePath(line) ==
    IF FirstToken(line) # <<"G", "E", "T">> THEN <<"/">>
    ELSE IF Spaces(line) = {} THEN <<"/">>
    ELSE Decoded(SecondToken(line))

\* C15: once a handler has its request line, its path is "/" when the first
\* token is not GET or when GET stands alone, and the (decoded) second token
\* otherwise; the cache holds no entry but that path's, and the bodies sent
\* are that path, after a hit followed by a space and the hit marker.
C15_EffectivePath ==
    \A c \in Conns :
        LET p == EffectivePath(LineOf(c))
        IN /\ hpc[c] \notin {"new", "queued", "read"} => path[c] = p
           /\ (FirstToken(LineOf(c)) = MethodGET /\ Spaces(LineOf(c)) # {}
                 /\ Ascii(SecondToken(LineOf(c)))) => p = SecondToken(LineOf(c))
           /\ Decoded(p) = p
           /\ DOMAIN cache \subseteq {p}
           /\ (hres[c] = "ok" /\ kind[c] = "miss") => out[c].body = as_bytes(p)
           /\ (hres[c] = "ok" /\ kind[c] = "hit") =>
                 out[c].body = as_bytes(p) \o <<SP>> \o EmojiBytes

\* C15 witness: a request with another method than GET and a path token has
\* been counted and answered under "/", as a miss and then as a hit.
C15_Witness ==
    /\ LineOf(1) = <<"T", SP, "G", "E">>
    /\ \A c \in Conns : hres[c] = "ok" /\ path[c] = <<"/">>
    /\ kind[1] = "miss" /\ kind[MaxConns] = "hit"
    /\ cache = [q \in {<<"/">>} |-> MaxConns]

\* ------------------------------------------------------- C16: I/O failures

\* C16: the step in which a read, write or flush of connection c fails ends
\* the handler of c and nothing else.  The worker that ran it is back in
\* Idle, every other worker is where it was, the queue, the join handles
\* and the cache are untouched, and so is every other connection; and as
\* long as no Terminate has been sent no worker has ended, so the worker is
\* there to take the next item.
C16_IoErrorLocal ==
    /\ [][\A c \in Conns : (ioErrs' # ioErrs /\ hres'[c] # hres[c] /\ Running(c)) =>
            /\ \E w \in Workers :
                  /\ wpc[w] = "job" /\ wjob[w] = c
                  /\ Idle(w)'
                  /\ \A v \in Workers \ {w} : wpc'[v] = wpc[v] /\ wjob'[v] = wjob[v]
            /\ hpc'[c] = "closed"
            /\ queue' = queue /\ workers' = workers
            /\ cache' = cache /\ cacheLock' = cacheLock
            /\ \A d \in Conns \ {c} :
                  /\ hpc'[d] = hpc[d] /\ hres'[d] = hres[d] /\ out'[d] = out[d]
                  /\ kind'[d] = kind[d] /\ path'[d] = path[d] /\ n'[d] = n[d]]_vars
    /\ [](sd_i + dr_i = 0 => \A w \in Workers : ~Ended(w))

\* What the code does: the failure stays with its connection when the
\* closure's eprintln! writes its line; a worker that has ended with no
\* Terminate sent has ended by a panic.
IoErrorLocalWhenLogged ==
    /\ [][\A c \in Conns : (hres[c] # "ioerr" /\ hres'[c] = "ioerr") =>
            /\ \E w \in Workers : wpc[w] = "job" /\ wjob[w] = c /\ Idle(w)'
            /\ queue' = queue
            /\ \A d \in Conns \ {c} : hpc'[d] = hpc[d] /\ hres'[d] = hres[d]]_vars
    /\ []((sd_i + dr_i = 0 /\ NoPanic) => \A w \in Workers : ~Ended(w))

\* ---------------------------------------------------- C17: a job that panics

TerminatesIn(q) == {i \in 1..Len(q) : q[i].type = "Terminate"}

\* C17: a worker ends only by taking a Terminate from the queue (the queue
\* is never closed while a worker lives), whatever the jobs do: the workers
\* that have ended are no more than the Terminate messages taken (of those
\* shutdown() and the Drop have sent), and none has ended by a panic.
C17_StopOnlyOnTerminate ==
    /\ Cardinality({w \in Workers : Ended(w)})
          <= sd_i + dr_i - Cardinality(TerminatesIn(queue))
    /\ \A w \in Workers : wpc[w] # "panicked"

\* What the code does once a job has panicked: no worker runs a job again.
PanicStopsThePool ==
    [][(\E c \in Conns : hres[c] = "panic") => runs' = runs]_vars

\* ------------------------- C18: execute on a busy pool, and after shutdown()

\* The client of every connection of the busy pool: the content of a job
\* plays no part in execute.
BusyClient == [data |-> ReqGetA, cuts |-> {}, ending |-> "close"]

\* One connection more than the pool has workers.
BusyConns == 1..(NumWorkers + 1)

\* pool.execute(job) called when pool.shutdown() has returned, for the job of
\* one more connection.
ExecuteLate ==
    /\ main_pc = "stats_lock"
    /\ LET c == Cardinality(AcceptedIds) + 1
       IN /\ c \in ConnIds
          /\ req' = [req EXCEPT ![c] = BusyClient]
          /\ execute(c)
    /\ UNCHANGED <<shutdown, main_pc, sd_i, dr_i, joining, workers, rxLock, wpc, wjob>>
    /\ UNCHANGED <<n, path, kind, out>>
    /\ UNCHANGED <<cacheVars, statVars, runs, inflight, ioErrs, rounds, arrival>>

\* The program serving more connections than it has workers, with a caller
\* of execute after shutdown().  Every client sends its whole request, so no
\* read returns 0.
NextBusy ==
    \/ CheckFlag
    \/ Accept(BusyConns, BusyClient)
    \/ AcceptWouldBlock
    \/ AcceptError
    \/ ShutdownSend
    \/ ShutdownJoin
    \/ StatsLock
    \/ StatsClone
    \/ StatsPrint
    \/ PoolDrop
    \/ PoolDropUnwinding
    \/ Signal
    \/ ExecuteLate
    \/ \E w \in Workers : WorkerStep(w)
    \/ \E c \in ConnIds : Read(c) \/ LookupLock(c) \/ Lookup(c) \/ SleepDone(c)
    \/ \E c \in ConnIds : InsertEntry(c) \/ InsertInc(c) \/ Respond(c)
    \/ \E c \in ConnIds : IoError(c)

SpecBusy == Init /\ [][NextBusy]_vars

C19_OneTerminateEach ==
    /\ [](/\ sd_i <= NumWorkers
          /\ sd_i + dr_i = Cardinality(TerminatesIn(queue))
                              + Cardinality({w \in Workers : Ended(w)}))
    /\ [][\A w \in Workers : Ended(w) => wpc'[w] = wpc[w]]_vars
    /\ [](ShutdownReturned =>
            /\ sd_i = NumWorkers
            /\ queue = <<>>
            /\ workers = <<>>
            /\ \A w \in Workers : Stopped(w))
    /\ [][ShutdownReturned =>
            queue' = queue /\ workers' = workers /\ wpc' = wpc /\ sd_i' = sd_i
               /\ dr_i' = dr_i /\ joining' = joining]_vars

\* What the code does: with no panic, the Terminate messages sent by
\* shutdown() are those queued plus one per ended worker, and shutdown()
\* returns with each taken; once shutdown() has returned, panic or not, the
\* Drop sends nothing and joins nothing.
OneTerminateEachUnlessPanic ==
    /\ [](NoPanic => sd_i + dr_i = Cardinality(TerminatesIn(queue))
                                     + Cardinality({w \in Workers : Ended(w)}))
    /\ []((ShutdownReturned /\ NoPanic) =>
            sd_i = NumWorkers /\ queue = <<>> /\ \A w \in Workers : Stopped(w))
    /\ [](ShutdownReturned => workers = <<>> /\ joining = 0 /\ dr_i = 0)

\* ------------------------------------------------ C20: no update is lost

\* The handler of c has done its cache update: the increment of a hit, or
\* the insert and increment of a miss.
Updated(c) ==
    \/ kind[c] = "hit"
    \/ kind[c] = "miss" /\ hpc[c] \in {"respond", "closed"}

StoredCount(p) == IF p \in DOMAIN cache THEN cache[p] ELSE 0

\* C20: for every path, the stored count (0 when absent) is the number of
\* handlers of that path that have done their cache update; a handler that
\* reached no path (a silent end, a 400, a failed read) has updated nothing.
C20_NoLostUpdate ==
    /\ \A p \in DOMAIN cache \cup {path[c] : c \in Conns} :
          StoredCount(p) = Cardinality({c \in Conns : path[c] = p /\ Updated(c)})
    /\ \A c \in Conns :
          (hres[c] = "silent" \/ kind[c] = "bad" \/ out[c].status = 400) =>
              ~Updated(c) /\ path[c] = <<>>
    /\ <<>> \notin DOMAIN cache

\* C20 witness: every handler is done, and two of them, of different paths,
\* have each counted their path once.
C20_Witness ==
    /\ \A c \in Conns : hpc[c] = "closed"
    /\ Cardinality(DOMAIN cache) = 2
    /\ \A p \in DOMAIN cache : cache[p] = 1

====
